---- MODULE Spec2Model ----
(***************************************************************************)
(* Model of the Game of Life engine of src/src/lib.rs (struct Universe).   *)
(*                                                                         *)
(* The grid is a FixedBitSet whose length is fixed by Universe::new; the   *)
(* operations are the methods of Universe.  A panic (a failed assertion of *)
(* FixedBitSet::set, or slice::chunks(0)) ends the life of the object: the *)
(* state it leaves behind is recorded with status = "panicked" and no      *)
(* further method is called on it.                                         *)
(*                                                                         *)
(* Universe::new builds a 128 x 128 grid.  Spec builds an                   *)
(* InitWidth x InitHeight grid with the same seeding rule and calls every  *)
(* method with arguments of at most MaxDim, so that no u32 product         *)
(* overflows.  SpecPattern starts from grids that hold one pattern and     *)
(* ticks them.  SpecNew builds the 128 x 128 grid itself and resizes it    *)
(* with arguments whose u32 product with the other dimension overflows:    *)
(* the multiplication panics in a build with overflow checks and wraps     *)
(* modulo 2^32 in a build without them.                                    *)
(***************************************************************************)
EXTENDS Integers, Sequences, FiniteSets, TLC

\* ---- bounds of the model ----
\* InitWidth x InitHeight: the grid built by new; MaxDim: the largest
\* argument of set_width / set_height; MaxCoord: the largest row or column
\* passed to toggle_cell / set_cells; MaxCoords: the longest list passed to
\* set_cells; MaxOps: the number of method calls on one Universe.
InitWidth == 4
InitHeight == 4
MaxDim == 5
MaxCoord == 3
MaxCoords == 2
MaxOps == 3
\* MaxPatDim: the largest width and height of the grids that hold a single
\* pattern (SpecPattern).
MaxPatDim == 5
\* MaxNewOps: the number of method calls on the 128 x 128 grid (SpecNew).
MaxNewOps == 3

\* ---- program constants ----
\* FixedBitSet stores its bits in u32 blocks (as_slice() is a &[u32]).
BITS == 32

\* let width = 128; let height = 128; in Universe::new.
NewWidth == 128
NewHeight == 128

\* 2^16: a u32 is handled as two 16-bit halves.
Half32 == 256 * 256

DeadGlyph == "dead"
AliveGlyph == "alive"
LineBreak == "\n"

\* overflow_checks: whether the build panics on integer overflow (it wraps
\* otherwise); fixed for a behaviour.
\* width, height, cells: the fields of the Universe.
\* status: "ok", or "panicked" once a method has panicked.
\* last: the last method called and its arguments; streak: how many times
\* in a row that same call has just been made; pre: the Universe before
\* the last call; ret: what the last call returned; steps: calls so far.
VARIABLES overflow_checks, width, height, cells, status, last, streak, pre,
          ret, steps

vars == <<overflow_checks, width, height, cells, status, last, streak, pre,
          ret, steps>>

\* ---------------------------------------------------------------------
\* FixedBitSet: a bit vector of fixed length, bits indexed from 0.
\* ---------------------------------------------------------------------
with_capacity(n) == [i \in 0..(n - 1) |-> FALSE]

bit_len(bs) == Cardinality(DOMAIN bs)

\* Index<usize>: a bit outside the capacity reads as false, never panics.
contains(bs, bit) == bit \in DOMAIN bs /\ bs[bit]

\* set(bit, enabled) asserts bit < length; put is its effect when it holds.
set_in_range(bs, bit) == bit < bit_len(bs)

put(bs, bit, enabled) == [bs EXCEPT ![bit] = enabled]

num_blocks(n) == (n \div BITS) + (IF n % BITS > 0 THEN 1 ELSE 0)

\* as_slice(): the u32 blocks; a block is given by the set of its 1 bits,
\* so that the block is the number 0 iff the set is empty.
as_slice(bs) ==
  [b \in 1..num_blocks(bit_len(bs)) |->
     {i \in 0..(BITS - 1) : contains(bs, (b - 1) * BITS + i)}]

\* ---------------------------------------------------------------------
\* Universe: u = [width, height, cells]; an operation returns u with a
\* field ok (FALSE: it panicked, the fields are what it left behind).
\* ---------------------------------------------------------------------
Universe(w, h, bs) == [width |-> w, height |-> h, cells |-> bs]

Result(u, ok) ==
  [width |-> u.width, height |-> u.height, cells |-> u.cells, ok |-> ok]

\* a * b on u32 for a, b < 2^31, by 16-bit halves: whether the product
\* overflows 32 bits, and the product modulo 2^32.
mul_overflows(a, b) ==
  LET ah == a \div Half32  al == a % Half32
      bh == b \div Half32  bl == b % Half32
  IN  ah * bh > 0 \/ (ah * bl + al * bh) + ((al * bl) \div Half32) >= Half32

wrapping_mul(a, b) ==
  LET ah == a \div Half32  al == a % Half32
      bh == b \div Half32  bl == b % Half32
  IN  (((ah * bl + al * bh) + ((al * bl) \div Half32)) % Half32) * Half32
      + ((al * bl) % Half32)

\* An index computation with row and column exchanged.
get_index_swapped(u, row, column) == column * u.width + row

\* row * self.width + column on u32, in a build without overflow checks:
\* the product wraps modulo 2^32 (no model input makes the sum overflow).
get_index(u, row, column) == wrapping_mul(row, u.width) + column

\* In a build with overflow checks get_index panics when its product
\* overflows; only the coordinates a caller passes in can make it do so,
\* since with these checks width * height never exceeds the storage.
get_index_panics(u, row, column) ==
  overflow_checks /\ mul_overflows(row, u.width)

\* A neighbor count that forgets to wrap at the south and east edges.
live_neighbor_count_no_wrap(u, row, column) ==
  LET north == IF row = 0 THEN u.height - 1 ELSE row - 1
      south == row + 1
      west  == IF column = 0 THEN u.width - 1 ELSE column - 1
      east  == column + 1
      bit(r, c) == IF r < u.height /\ c < u.width
                      /\ contains(u.cells, get_index(u, r, c)) THEN 1 ELSE 0
  IN  bit(north, west) + bit(north, column) + bit(north, east)
      + bit(row, west) + bit(row, east)
      + bit(south, west) + bit(south, column) + bit(south, east)

live_neighbor_count(u, row, column) ==
  LET north == IF row = 0 THEN u.height - 1 ELSE row - 1
      south == IF row = u.height - 1 THEN 0 ELSE row + 1
      west  == IF column = 0 THEN u.width - 1 ELSE column - 1
      east  == IF column = u.width - 1 THEN 0 ELSE column + 1
      bit(i) == IF contains(u.cells, i) THEN 1 ELSE 0
  IN  bit(get_index(u, north, west)) + bit(get_index(u, north, column))
      + bit(get_index(u, north, east)) + bit(get_index(u, row, west))
      + bit(get_index(u, row, east)) + bit(get_index(u, south, west))
      + bit(get_index(u, south, column)) + bit(get_index(u, south, east))

\* A constructor that seeds the even indices only.
new_with_even_only(w, h) ==
  LET size == w * h
      empty == with_capacity(size)
  IN  Universe(w, h, [i \in DOMAIN empty |-> (i % 2 = 0)])

\* The body of Universe::new for a w x h grid.
new_with(w, h) ==
  LET size == w * h
      empty == with_capacity(size)
  IN  Universe(w, h, [i \in DOMAIN empty |-> (i % 2 = 0 \/ i % 7 = 0)])

\* Universe::new, scaled to InitWidth x InitHeight.
new == new_with(InitWidth, InitHeight)

\* Universe::new as it is: 128 x 128.
new_full == new_with(NewWidth, NewHeight)

\* set_cells: the loop over the coordinates, from position k on.
RECURSIVE set_cells_loop(_, _, _)
set_cells_loop(u, coords, k) ==
  IF k > Len(coords) THEN Result(u, TRUE)
  ELSE IF get_index_panics(u, coords[k][1], coords[k][2]) THEN Result(u, FALSE)
  ELSE LET idx == get_index(u, coords[k][1], coords[k][2])
       IN  IF ~set_in_range(u.cells, idx) THEN Result(u, FALSE)
           ELSE set_cells_loop([u EXCEPT !.cells = put(u.cells, idx, TRUE)],
                               coords, k + 1)

\* A set_cells that starts from an empty grid instead of the current one.
set_cells_clearing(u, coords) ==
  set_cells_loop([u EXCEPT !.cells = with_capacity(bit_len(u.cells))], coords, 1)

set_cells(u, coords) == set_cells_loop(u, coords, 1)

\* for idx in 0..n { cells.set(idx, false) } on the clone of the storage.
RECURSIVE clear_loop(_, _, _)
clear_loop(bs, idx, n) ==
  IF idx >= n THEN [cells |-> bs, ok |-> TRUE]
  ELSE IF ~set_in_range(bs, idx) THEN [cells |-> bs, ok |-> FALSE]
  ELSE clear_loop(put(bs, idx, FALSE), idx + 1, n)

\* checks: the build panics when width * self.height overflows.
set_width(u, w, checks) ==
  LET u1 == [u EXCEPT !.width = w]
      r == clear_loop(u1.cells, 0, wrapping_mul(w, u1.height))
  IN  IF checks /\ mul_overflows(w, u1.height) THEN Result(u1, FALSE)
      ELSE IF r.ok THEN Result([u1 EXCEPT !.cells = r.cells], TRUE)
      ELSE Result(u1, FALSE)

set_height(u, h, checks) ==
  LET u1 == [u EXCEPT !.height = h]
      r == clear_loop(u1.cells, 0, wrapping_mul(h, u1.width))
  IN  IF checks /\ mul_overflows(h, u1.width) THEN Result(u1, FALSE)
      ELSE IF r.ok THEN Result([u1 EXCEPT !.cells = r.cells], TRUE)
      ELSE Result(u1, FALSE)

\* A rule in which a live cell survives with two neighbors only.
next_cell_survive_two(cell, live_neighbors) ==
  IF cell THEN live_neighbors = 2 ELSE live_neighbors = 3

\* A rule without reproduction: a Dead cell stays Dead.
next_cell_no_birth(cell, live_neighbors) ==
  cell /\ (live_neighbors = 2 \/ live_neighbors = 3)

\* A rule in which a Dead cell with up to three neighbors becomes Alive.
next_cell_birth_up_to_three(cell, live_neighbors) ==
  IF cell THEN (live_neighbors = 2 \/ live_neighbors = 3)
  ELSE live_neighbors <= 3

\* The match of tick on (cell, live_neighbors).
next_cell(cell, live_neighbors) ==
  IF cell /\ live_neighbors < 2 THEN FALSE
  ELSE IF cell /\ (live_neighbors = 2 \/ live_neighbors = 3) THEN TRUE
  ELSE IF cell /\ live_neighbors > 3 THEN FALSE
  ELSE IF ~cell /\ live_neighbors = 3 THEN TRUE
  ELSE cell

\* A tick that reads the buffer it is writing (in-place update).
RECURSIVE tick_cols_in_place(_, _, _, _)
tick_cols_in_place(u, next, row, col) ==
  IF col >= u.width THEN [cells |-> next, ok |-> TRUE]
  ELSE LET idx == get_index(u, row, col)
           v == [u EXCEPT !.cells = next]
           cell == contains(v.cells, idx)
           live_neighbors == live_neighbor_count(v, row, col)
       IN  IF ~set_in_range(next, idx) THEN [cells |-> next, ok |-> FALSE]
           ELSE tick_cols_in_place(u, put(next, idx, next_cell(cell, live_neighbors)),
                                   row, col + 1)

\* The inner loop of tick: for col in 0..self.width, from col on.
RECURSIVE tick_cols(_, _, _, _)
tick_cols(u, next, row, col) ==
  IF col >= u.width THEN [cells |-> next, ok |-> TRUE]
  ELSE LET idx == get_index(u, row, col)
           cell == contains(u.cells, idx)
           live_neighbors == live_neighbor_count(u, row, col)
       IN  IF ~set_in_range(next, idx) THEN [cells |-> next, ok |-> FALSE]
           ELSE tick_cols(u, put(next, idx, next_cell(cell, live_neighbors)),
                          row, col + 1)

\* The outer loop of tick: for row in 0..self.height, from row on.
RECURSIVE tick_rows(_, _, _)
tick_rows(u, next, row) ==
  IF row >= u.height THEN [cells |-> next, ok |-> TRUE]
  ELSE LET r == tick_cols(u, next, row, 0)
       IN  IF r.ok THEN tick_rows(u, r.cells, row + 1) ELSE r

\* A tick that fills an empty buffer instead of a clone of the cells.
tick_from_empty(u) ==
  LET r == tick_rows(u, with_capacity(bit_len(u.cells)), 0)
  IN  IF r.ok THEN Result([u EXCEPT !.cells = r.cells], TRUE)
      ELSE Result(u, FALSE)

tick(u) ==
  LET r == tick_rows(u, u.cells, 0)
  IN  IF r.ok THEN Result([u EXCEPT !.cells = r.cells], TRUE)
      ELSE Result(u, FALSE)

\* A toggle that sets the cell Alive whatever it was.
toggle_cell_set_alive(u, row, column) ==
  LET idx == get_index(u, row, column)
  IN  IF ~set_in_range(u.cells, idx) THEN Result(u, FALSE)
      ELSE Result([u EXCEPT !.cells = put(u.cells, idx, TRUE)], TRUE)

toggle_cell(u, row, column) ==
  LET idx == get_index(u, row, column)
  IN  IF get_index_panics(u, row, column) THEN Result(u, FALSE)
      ELSE IF ~set_in_range(u.cells, idx) THEN Result(u, FALSE)
      ELSE Result([u EXCEPT !.cells = put(u.cells, idx, ~contains(u.cells, idx))],
                  TRUE)

\* slice::chunks(n) for n > 0 (it panics for n = 0).
chunks(s, n) ==
  [k \in 1..((Len(s) + n - 1) \div n) |->
     SubSeq(s, (k - 1) * n + 1, IF k * n < Len(s) THEN k * n ELSE Len(s))]

\* Display::fmt, the inner loop: one glyph per element of the line.
fmt_line(line) ==
  [j \in 1..Len(line) |-> IF line[j] = {} THEN DeadGlyph ELSE AliveGlyph]

RECURSIVE fmt_lines(_, _)
fmt_lines(lines, k) ==
  IF k > Len(lines) THEN <<>>
  ELSE fmt_line(lines[k]) \o <<LineBreak>> \o fmt_lines(lines, k + 1)

\* render() = to_string(): the text as a sequence of characters.
render(u) ==
  IF u.width = 0 THEN [ok |-> FALSE, text |-> <<>>]
  ELSE [ok |-> TRUE, text |-> fmt_lines(chunks(as_slice(u.cells), u.width), 1)]

\* ---------------------------------------------------------------------
\* The state machine: one action per public method.
\* ---------------------------------------------------------------------
Self == Universe(width, height, cells)

Dims == 0..MaxDim
Coord == 0..MaxCoord
\* set_cells is called with lists of at most MaxCoords coordinates taken
\* from three corners of the coordinate range (in range for the initial
\* grid; the row, the column or both out of range after a shrinking resize).
SetCoords == {<<0, 0>>, <<0, MaxCoord>>, <<MaxCoord, MaxCoord>>}

CoordSeqs ==
  UNION {[1..n -> SetCoords] : n \in 0..MaxCoords}

Call(op, row, col, n, coords) ==
  [op |-> op, row |-> row, col |-> col, n |-> n, coords |-> coords]

CanCall == status = "ok" /\ steps < MaxOps

\* The effect of a mutating method with result r, called as c.
Mutate(c, r) ==
  /\ UNCHANGED overflow_checks
  /\ width' = r.width
  /\ height' = r.height
  /\ cells' = r.cells
  /\ status' = IF r.ok THEN "ok" ELSE "panicked"
  /\ last' = c
  /\ streak' = (IF c = last THEN streak + 1 ELSE 1)
  /\ pre' = Self
  /\ ret' = <<>>
  /\ steps' = steps + 1

\* The effect of a read-only method that returns value (or panics).
Query(c, ok, value) ==
  /\ UNCHANGED <<overflow_checks, width, height, cells>>
  /\ status' = IF ok THEN "ok" ELSE "panicked"
  /\ last' = c
  /\ streak' = (IF c = last THEN streak + 1 ELSE 1)
  /\ pre' = Self
  /\ ret' = value
  /\ steps' = steps + 1

\* Spec and SpecPattern follow a build without overflow checks (a release
\* build); none of their inputs overflows, so the other build behaves alike.
Init ==
  /\ overflow_checks = FALSE
  /\ width = new.width
  /\ height = new.height
  /\ cells = new.cells
  /\ status = "ok"
  /\ last = Call("new", 0, 0, 0, <<>>)
  /\ streak = 1
  /\ pre = new
  /\ ret = <<>>
  /\ steps = 0

Tick ==
  /\ CanCall
  /\ Mutate(Call("tick", 0, 0, 0, <<>>), tick(Self))

ToggleCell ==
  /\ CanCall
  /\ \E row \in Coord, column \in Coord :
       Mutate(Call("toggle_cell", row, column, 0, <<>>),
              toggle_cell(Self, row, column))

SetCells ==
  /\ CanCall
  /\ \E coords \in CoordSeqs :
       Mutate(Call("set_cells", 0, 0, 0, coords), set_cells(Self, coords))

SetWidth ==
  /\ CanCall
  /\ \E w \in Dims :
       Mutate(Call("set_width", 0, 0, w, <<>>), set_width(Self, w, overflow_checks))

SetHeight ==
  /\ CanCall
  /\ \E h \in Dims :
       Mutate(Call("set_height", 0, 0, h, <<>>), set_height(Self, h, overflow_checks))

Render ==
  /\ CanCall
  /\ LET r == render(Self)
     IN  Query(Call("render", 0, 0, 0, <<>>), r.ok, r.text)

GetWidth ==
  /\ CanCall
  /\ Query(Call("width", 0, 0, 0, <<>>), TRUE, <<width>>)

GetHeight ==
  /\ CanCall
  /\ Query(Call("height", 0, 0, 0, <<>>), TRUE, <<height>>)

Next ==
  \/ Tick
  \/ ToggleCell
  \/ SetCells
  \/ SetWidth
  \/ SetHeight
  \/ Render
  \/ GetWidth
  \/ GetHeight

Spec == Init /\ [][Next]_vars

\* ---------------------------------------------------------------------
\* Grids that hold a single pattern: the Universe after it was resized to
\* w x h (all cells Dead) and the pattern was written with set_cells; the
\* bits of the storage beyond w * h are all clear or all set.
\* ---------------------------------------------------------------------
BlockCoords(w, h, r, c) ==
  << <<r, c>>, <<r, (c + 1) % w>>, <<(r + 1) % h, c>>, <<(r + 1) % h, (c + 1) % w>> >>

RowCoords(w, h, r, c) ==
  << <<r, (c + w - 1) % w>>, <<r, c>>, <<r, (c + 1) % w>> >>

ColumnCoords(w, h, r, c) ==
  << <<(r + h - 1) % h, c>>, <<r, c>>, <<(r + 1) % h, c>> >>

PatternCoords(w, h, r, c) ==
  {BlockCoords(w, h, r, c), RowCoords(w, h, r, c), ColumnCoords(w, h, r, c)}

Blank(w, h, stale) ==
  Universe(w, h, [i \in 0..(MaxPatDim * MaxPatDim - 1) |-> (i >= w * h /\ stale)])

InitPattern ==
  \E w \in 1..MaxPatDim, h \in 1..MaxPatDim, stale \in BOOLEAN :
    \E r \in 0..(h - 1), c \in 0..(w - 1) :
      \E coords \in PatternCoords(w, h, r, c) :
        LET u == set_cells(Blank(w, h, stale), coords)
        IN  /\ overflow_checks = FALSE
            /\ width = u.width
            /\ height = u.height
            /\ cells = u.cells
            /\ status = "ok"
            /\ last = Call("set_cells", 0, 0, 0, coords)
            /\ streak = 1
            /\ pre = Blank(w, h, stale)
            /\ ret = <<>>
            /\ steps = 0

NextPattern == Tick

SpecPattern == InitPattern /\ [][NextPattern]_vars

\* ---------------------------------------------------------------------
\* The 128 x 128 grid of Universe::new, in either build, with toggle_cell
\* at SetCoords, resizes to 0 and to WrapDim, and further calls of new.
\* ---------------------------------------------------------------------
\* 2^25, the least dimension whose u32 product with 128 overflows.
WrapDim == (Half32 \div NewHeight) * Half32

BigDims == {0, WrapDim}

\* Coordinates for toggle_cell: the small ones and a row whose product
\* with the width of new() is 2^32.
BigCoords == SetCoords \cup {<<WrapDim, 0>>}

CanCallNew == status = "ok" /\ steps < MaxNewOps

InitNew ==
  /\ overflow_checks \in BOOLEAN
  /\ width = new_full.width
  /\ height = new_full.height
  /\ cells = new_full.cells
  /\ status = "ok"
  /\ last = Call("new", 0, 0, 0, <<>>)
  /\ streak = 1
  /\ pre = new_full
  /\ ret = <<>>
  /\ steps = 0

\* Universe::new() called again: a fresh Universe replaces the current one.
New ==
  /\ steps < MaxNewOps
  /\ Mutate(Call("new", 0, 0, 0, <<>>), Result(new_full, TRUE))

NewToggleCell ==
  /\ CanCallNew
  /\ \E rc \in BigCoords :
       Mutate(Call("toggle_cell", rc[1], rc[2], 0, <<>>),
              toggle_cell(Self, rc[1], rc[2]))

NewSetWidth ==
  /\ CanCallNew
  /\ \E w \in BigDims :
       Mutate(Call("set_width", 0, 0, w, <<>>), set_width(Self, w, overflow_checks))

NewSetHeight ==
  /\ CanCallNew
  /\ \E h \in BigDims :
       Mutate(Call("set_height", 0, 0, h, <<>>), set_height(Self, h, overflow_checks))

NextNew ==
  \/ New
  \/ NewToggleCell
  \/ NewSetWidth
  \/ NewSetHeight

SpecNew == InitNew /\ [][NextNew]_vars

\* ---------------------------------------------------------------------
\* Properties
\* ---------------------------------------------------------------------
Ok == status = "ok"

InRange(u, row, col) == row < u.height /\ col < u.width

\* The cell at (row, col): the bit at the row-major position.
CellAt(u, row, col) == contains(u.cells, row * u.width + col)

Rows(u) == 0..(u.height - 1)
Cols(u) == 0..(u.width - 1)

AllDead(u) == \A row \in Rows(u), col \in Cols(u) : ~CellAt(u, row, col)

SomeAlive(u) == \E row \in Rows(u), col \in Cols(u) : CellAt(u, row, col)

Offsets == {o \in {-1, 0, 1} \X {-1, 0, 1} : o # <<0, 0>>}

\* The number of offsets whose toroidal target cell is Alive.
NeighborSum(u, row, col) ==
  Cardinality({o \in Offsets :
                 CellAt(u, (row + o[1] + u.height) % u.height,
                           (col + o[2] + u.width) % u.width)})

\* The B3/S23 rule for the cell at (row, col) of u.
Successor(u, row, col) ==
  \/ CellAt(u, row, col) /\ NeighborSum(u, row, col) \in {2, 3}
  \/ ~CellAt(u, row, col) /\ NeighborSum(u, row, col) = 3

\* C1: after tick() the grid is the synchronous B3/S23 successor of the
\* grid before it: every cell (row, col) of the grid is Alive iff the rule
\* says so for the pre-tick cell and its pre-tick neighbor count; tick
\* returns normally and keeps width and height.
C1_TickIsSuccessor ==
  last.op = "tick" =>
    /\ Ok
    /\ width = pre.width /\ height = pre.height
    /\ \A row \in Rows(pre), col \in Cols(pre) :
         CellAt(Self, row, col) = Successor(pre, row, col)

\* A tick of a grid of at least 3 x 3 in which a cell is born, a cell dies
\* and a cell survives.
C1_Witness ==
  /\ last.op = "tick" /\ Ok
  /\ pre.width >= 3 /\ pre.height >= 3
  /\ \E row \in Rows(pre), col \in Cols(pre) :
       ~CellAt(pre, row, col) /\ CellAt(Self, row, col)
  /\ \E row \in Rows(pre), col \in Cols(pre) :
       CellAt(pre, row, col) /\ ~CellAt(Self, row, col)
  /\ \E row \in Rows(pre), col \in Cols(pre) :
       CellAt(pre, row, col) /\ CellAt(Self, row, col)

\* C2: live_neighbor_count is private and called by tick only, on the grid
\* before the tick.  For every such grid with width >= 1 and height >= 1
\* and every in-range (row, col), live_neighbor_count(row, col) is in 0..8
\* and is the sum over the 8 offsets of the bit at the toroidally wrapped
\* position.
C2_NeighborCount ==
  (last.op = "tick" /\ pre.width >= 1 /\ pre.height >= 1) =>
    \A row \in Rows(pre), col \in Cols(pre) :
      /\ live_neighbor_count(pre, row, col) \in 0..8
      /\ live_neighbor_count(pre, row, col) = NeighborSum(pre, row, col)

\* tick has just counted the neighbors of a grid of at least 3 x 3 whose
\* only Alive cell is the one at (height-1, width-1): the cell at (0, 0)
\* counts it.
C2_Witness ==
  /\ last.op = "tick" /\ Ok
  /\ pre.width >= 3 /\ pre.height >= 3
  /\ \A row \in Rows(pre), col \in Cols(pre) :
       CellAt(pre, row, col) <=> (row = pre.height - 1 /\ col = pre.width - 1)
  /\ live_neighbor_count(pre, 0, 0) = 1

\* C3: after every operation that returns, the length of the cells storage
\* equals width * height.
C3_DimensionInvariant ==
  Ok => bit_len(cells) = width * height

\* C4: after set_width(w2) or set_height(h2) on a grid with a live cell,
\* every cell of the grid is Dead and the grid has the requested dimension
\* and the other dimension unchanged.
C4_ResizeResets ==
  (last.op \in {"set_width", "set_height"} /\ SomeAlive(pre)) =>
    /\ AllDead(Self)
    /\ last.op = "set_width" => (width = last.n /\ height = pre.height)
    /\ last.op = "set_height" => (height = last.n /\ width = pre.width)

\* C5: a call to tick(), render(), width() or height() never panics.
C5_QueriesCannotFail ==
  last.op \in {"tick", "render", "width", "height"} => Ok

\* C6: every mutating operation either completes with
\* cells.length = width * height, or fails having changed none of width,
\* height and cells.
C6_NoPartialFailure ==
  last.op \in {"set_width", "set_height", "set_cells", "toggle_cell", "tick"} =>
    \/ Ok /\ bit_len(cells) = width * height
    \/ ~Ok /\ Self = pre

\* The text the specification describes: height lines of width glyphs, each
\* followed by a line break.
RECURSIVE ExpectedText(_, _)
ExpectedText(u, row) ==
  IF row >= u.height THEN <<>>
  ELSE [j \in 1..u.width |->
          IF CellAt(u, row, j - 1) THEN AliveGlyph ELSE DeadGlyph]
       \o <<LineBreak>> \o ExpectedText(u, row + 1)

\* C7: render() returns height lines of width glyphs, the glyph at line r,
\* position c being the Alive glyph iff the cell at (r, c) is Alive, and it
\* changes no state.
C7_RenderText ==
  last.op = "render" =>
    /\ Ok
    /\ ret = ExpectedText(Self, 0)
    /\ Self = pre

\* C8: when toggle_cell(r, c) with in-range (r, c) is called a second time
\* in succession, the grid (width, height and every cell) is again what it
\* was before the first call.
C8_ToggleTwice ==
  [][(/\ last.op = "toggle_cell"
      /\ last' = last
      /\ InRange(pre, last.row, last.col))
     => (Ok' /\ width' = pre.width /\ height' = pre.height
             /\ cells' = pre.cells)]_vars

\* toggle_cell(r, c) has just been called twice in succession, in range.
C8_Witness ==
  /\ last.op = "toggle_cell" /\ streak = 2 /\ Ok
  /\ InRange(Self, last.row, last.col)
  /\ width >= 2 /\ height >= 2

\* C9: one toggle_cell(row, col) with in-range (row, col) flips the cell at
\* (row, col) and leaves every other cell, width and height unchanged.
C9_ToggleFlipsOne ==
  (last.op = "toggle_cell" /\ InRange(pre, last.row, last.col)) =>
    /\ Ok
    /\ width = pre.width /\ height = pre.height
    /\ DOMAIN cells = DOMAIN pre.cells
    /\ CellAt(Self, last.row, last.col) = ~CellAt(pre, last.row, last.col)
    /\ \A i \in DOMAIN cells :
         i # last.row * pre.width + last.col => cells[i] = pre.cells[i]

\* An in-range toggle_cell has just flipped a cell off the diagonal.
C9_Witness ==
  /\ last.op = "toggle_cell" /\ Ok
  /\ InRange(pre, last.row, last.col)
  /\ last.row # last.col
  /\ CellAt(Self, last.row, last.col) # CellAt(pre, last.row, last.col)

Listed(u, coords) ==
  {coords[k][1] * u.width + coords[k][2] : k \in 1..Len(coords)}

CoordsInRange(u, coords) ==
  \A k \in 1..Len(coords) : InRange(u, coords[k][1], coords[k][2])

\* C10: after set_cells(coords) with in-range coordinates every listed cell
\* is Alive, every other cell is as before, and width and height are
\* unchanged.
C10_SetCellsFrame ==
  (last.op = "set_cells" /\ CoordsInRange(pre, last.coords)) =>
    /\ Ok
    /\ width = pre.width /\ height = pre.height
    /\ DOMAIN cells = DOMAIN pre.cells
    /\ \A k \in 1..Len(last.coords) :
         CellAt(Self, last.coords[k][1], last.coords[k][2])
    /\ \A i \in DOMAIN cells :
         i \notin Listed(pre, last.coords) => cells[i] = pre.cells[i]

\* set_cells has just set two different in-range cells, one of them Dead
\* before, while an unlisted cell was Alive.
C10_Witness ==
  /\ last.op = "set_cells" /\ Ok
  /\ CoordsInRange(pre, last.coords)
  /\ Cardinality(Listed(pre, last.coords)) = 2
  /\ \E i \in Listed(pre, last.coords) : ~pre.cells[i]
  /\ \E i \in DOMAIN pre.cells :
       i \notin Listed(pre, last.coords) /\ pre.cells[i]

\* The coordinates of the Alive cells of the grid.
AliveSet(u) == {rc \in Rows(u) \X Cols(u) : CellAt(u, rc[1], rc[2])}

Range(seq) == {seq[k] : k \in 1..Len(seq)}

IsBlock(u) ==
  \E r \in Rows(u), c \in Cols(u) :
    AliveSet(u) = Range(BlockCoords(u.width, u.height, r, c))

\* C11: in a grid with height >= 4 and width >= 4 whose only Alive cells
\* form a 2x2 block, tick() leaves the grid unchanged: the same 4 cells are
\* Alive and all others Dead (and so after any number of ticks).
C11_BlockIsStill ==
  (last.op = "tick" /\ pre.width >= 4 /\ pre.height >= 4 /\ IsBlock(pre)) =>
    /\ Ok
    /\ width = pre.width /\ height = pre.height
    /\ AliveSet(Self) = AliveSet(pre)

\* The 4 x 4 grid with the block (1,1),(1,2),(2,1),(2,2) has been ticked
\* twice.
C11_Witness ==
  /\ last.op = "tick" /\ streak = 2 /\ Ok
  /\ pre.width = 4 /\ pre.height = 4
  /\ AliveSet(pre) = {<<1, 1>>, <<1, 2>>, <<2, 1>>, <<2, 2>>}
  /\ AliveSet(Self) = AliveSet(pre)

IsRow(u, r, c) == AliveSet(u) = Range(RowCoords(u.width, u.height, r, c))

IsColumn(u, r, c) == AliveSet(u) = Range(ColumnCoords(u.width, u.height, r, c))

\* C12: in a grid of at least 5 x 5 whose only Alive cells are 3 cells in a
\* line, the grid after one tick is the same 3-cell line in the
\* perpendicular orientation (so it differs), and the grid after the second
\* tick is the original grid.
C12_Blinker ==
  [][\A r \in Rows(pre), c \in Cols(pre) :
       (/\ last.op = "tick" /\ last'.op = "tick"
        /\ pre.width >= 5 /\ pre.height >= 5
        /\ (IsRow(pre, r, c) \/ IsColumn(pre, r, c)))
       => (/\ Ok /\ Ok'
           /\ IsRow(pre, r, c) => IsColumn(Self, r, c)
           /\ IsColumn(pre, r, c) => IsRow(Self, r, c)
           /\ AliveSet(Self) # AliveSet(pre)
           /\ width' = pre.width /\ height' = pre.height
           /\ AliveSet(Universe(width', height', cells')) = AliveSet(pre))]_vars

\* A row of 3 in a grid of at least 5 x 5 has been ticked twice: it was a
\* column after the first tick and is the row again.
C12_Witness ==
  /\ last.op = "tick" /\ streak = 2 /\ Ok
  /\ width >= 5 /\ height >= 5
  /\ \E r \in Rows(Self), c \in Cols(Self) :
       IsRow(Self, r, c) /\ IsColumn(pre, r, c)

\* C13: new() constructs a grid with width 128 and height 128 whose storage
\* has exactly width * height cells, the cell at linear index i being Alive
\* iff i is even or a multiple of 7; every call of new() yields this same
\* grid.
C13_NewGrid ==
  last.op = "new" =>
    /\ Ok
    /\ width = 128 /\ height = 128
    /\ bit_len(cells) = width * height
    /\ DOMAIN cells = 0..(width * height - 1)
    /\ \A i \in DOMAIN cells : cells[i] <=> (i % 2 = 0 \/ i % 7 = 0)

\* new() has been called again on a Universe that had been modified.
C13_Witness ==
  /\ last.op = "new" /\ steps >= 2
  /\ pre.cells # cells
  /\ cells[0] /\ ~cells[1] /\ cells[7] /\ ~cells[9]

\* width * height <= n, without forming the product.
Fits(w, h, n) == w = 0 \/ h <= n \div w

\* C14: in every state reached from new() by calls that return normally
\* the length of the cells storage is 128 * 128 and
\* width * height <= cells.length.
C14_StorageBounds ==
  Ok => (bit_len(cells) = 128 * 128 /\ Fits(width, height, bit_len(cells)))

\* C15: tick() leaves width, height and the storage length unchanged, and
\* leaves every storage bit at a linear index >= width * height as it was.
C15_TickFrame ==
  last.op = "tick" =>
    /\ width = pre.width /\ height = pre.height
    /\ DOMAIN cells = DOMAIN pre.cells
    /\ \A i \in DOMAIN cells :
         i >= width * height => cells[i] = pre.cells[i]

\* A tick has changed cells of a grid whose storage holds a set bit beyond
\* width * height.
C15_Witness ==
  /\ last.op = "tick" /\ Ok
  /\ width >= 1 /\ height >= 1
  /\ \E i \in DOMAIN cells : i >= width * height /\ cells[i]
  /\ cells # pre.cells

\* C16: if every cell is Dead before tick() then every cell is Dead after
\* it, for every width and height (so an all-Dead grid stays all-Dead
\* through any number of ticks).
C16_DeadIsAbsorbing ==
  (last.op = "tick" /\ AllDead(pre)) => AllDead(Self)

\* An all-Dead grid of at least 3 x 3 has been ticked twice.
C16_Witness ==
  /\ last.op = "tick" /\ streak = 2 /\ Ok
  /\ width >= 3 /\ height >= 3
  /\ AllDead(pre) /\ AllDead(Self)

LinearIndex(u, rc) == rc[1] * u.width + rc[2]

\* row * width + col < n, without forming the product.
Below(u, rc, n) ==
  rc[2] < n /\ (rc[1] = 0 \/ u.width = 0 \/ rc[1] <= (n - 1 - rc[2]) \div u.width)

\* The positions of the list whose linear index is beyond the storage.
Failing(u, coords) ==
  {k \in 1..Len(coords) : ~Below(u, coords[k], bit_len(u.cells))}

\* The number of coordinates of the list handled before the first failure.
Handled(u, coords) ==
  IF Failing(u, coords) = {} THEN Len(coords)
  ELSE (CHOOSE k \in Failing(u, coords) :
          \A j \in Failing(u, coords) : k <= j) - 1

\* C17: toggle_cell and set_cells do not check ranges.  A toggle_cell whose
\* linear index row * width + col is below the storage length returns and
\* flips the bit at that index, whatever row and col are; one whose index
\* is at or beyond the storage length fails and changes nothing.  set_cells
\* fails iff some listed index is at or beyond the storage length, and has
\* then set the bits of the coordinates listed before the first such one
\* (all listed bits when it returns); width and height do not change.
C17_NoRangeCheck ==
  /\ last.op = "toggle_cell" =>
       LET rc == <<last.row, last.col>>
       IN  /\ width = pre.width /\ height = pre.height
           /\ IF Below(pre, rc, bit_len(pre.cells))
              THEN /\ Ok
                   /\ cells = [pre.cells EXCEPT ![LinearIndex(pre, rc)] =
                                 ~pre.cells[LinearIndex(pre, rc)]]
              ELSE ~Ok /\ cells = pre.cells
  /\ last.op = "set_cells" =>
       LET done == Handled(pre, last.coords)
       IN  /\ width = pre.width /\ height = pre.height
           /\ Ok <=> (Failing(pre, last.coords) = {})
           /\ cells = [i \in DOMAIN pre.cells |->
                         pre.cells[i] \/ \E k \in 1..done :
                                            LinearIndex(pre, last.coords[k]) = i]

\* set_cells has failed at its second coordinate after it had set the bit
\* of the first one, which was clear.
C17_Witness ==
  /\ last.op = "set_cells" /\ ~Ok
  /\ Len(last.coords) = 2
  /\ Handled(pre, last.coords) = 1
  /\ ~pre.cells[LinearIndex(pre, last.coords[1])]
  /\ cells[LinearIndex(pre, last.coords[1])]

\* toggle_cell has been called with a column beyond the width and has
\* flipped the bit of another cell.
C17_OutOfRangeToggle ==
  /\ last.op = "toggle_cell" /\ Ok
  /\ last.col >= pre.width /\ last.row < pre.height
  /\ cells # pre.cells

====
